---- MODULE Spec2Model ----
(***************************************************************************)
(* Photography contest web application (src/app.py): the database tables   *)
(* the request handlers read and write, the upload folder, and one action  *)
(* per request handler.  The vote handler issues three separate database   *)
(* statements, so it is modelled as three steps that other requests may    *)
(* interleave with (one vote request is in flight at a time); every other  *)
(* handler writes with one statement or one stored procedure call and is   *)
(* one action.                                                             *)
(*                                                                         *)
(* The SQL schema (tables, keys, default values, stored procedures) is not *)
(* part of src/; the definitions that stand for it are marked as modelled  *)
(* from the specification.                                                 *)
(***************************************************************************)
EXTENDS Integers, Sequences, FiniteSets, TLC

\* ---------------------------------------------------------------- bounds
MaxTime == 2          \* NOW(), StartDate and EndDate range over 0..MaxTime
MaxPhotos == 1        \* AUTO_INCREMENT ids the Photo table can hand out
MaxCoins == 4         \* cap on a Coins balance (prize credits stop there)
MaxRows == 4          \* leaderboard rows in the ranking specification
MaxVotes == 5         \* votes per leaderboard row in the ranking specification

Users == {1, 2}
Times == 0..MaxTime
ContestIDs == {1}
PhotoIDs == 1..MaxPhotos
EntryFees == {1}
ParticipantChoices == {10}
BlankTitle == ""
ContestTitle == "Contest"
SubmittedTitle == "Photo"
EditedTitles == {"Edited"}
Admins == {1}
PrizeChoices == {2}
StartCoins == 1

\* Python values returned by the database helpers: None, or a list of rows.
None == [isNone |-> TRUE, rows |-> << >>]
Rows(r) == [isNone |-> FALSE, rows |-> r]
\* cursor.lastrowid: a number, never None.
LastRowID == Rows(<< >>)
NoFlash == ""

VARIABLES
    now,          \* the database clock, NOW()
    Contest,      \* Contest table: ContestID -> row (a sequence: ids are 1..n)
    Coins,        \* User.Coins, per UserID
    Photo,        \* Photo table: set of rows [PhotoID, UserID]
    Submission,   \* PhotoContestSubmission table: set of rows
    Votes,        \* Votes table: set of rows [UserID, PhotoID, ContestID]
    nextPhotoID,  \* AUTO_INCREMENT counter of Photo (and of the submission)
    files,        \* image files present in the upload folder
    voteReq,      \* the vote request in flight and its position in vote()
    last,         \* the request handled by the latest step and what it flashed
    session,      \* the browser's Flask session: user_id and admin_id (0: no key)
    Title,        \* Photo.Title: set of rows [PhotoID, Title]
    prizeCredits, \* history: per contest, how often its prize was credited
    lbCounts,     \* ranking specification: TotalVotes of the leaderboard rows
    lbRanks       \* ranking specification: the Rank column computed for them

vars == <<now, Contest, Coins, Photo, Submission, Votes, nextPhotoID, files,
          voteReq, last, session, Title, prizeCredits, lbCounts, lbRanks>>

dbVars == <<Contest, Coins, Photo, Submission, Votes, nextPhotoID>>
lbVars == <<lbCounts, lbRanks>>
\* What only submit_photo, edit_photo, delete_photo and finalize_contest write.
rowVars == <<Title, prizeCredits>>

\* ------------------------------------------------------------- flashes
MsgContestNotFound == "Contest not found!"
MsgNotActive == "You can only vote in active contests!"
MsgNotInContest == "This photo is not part of this contest!"
MsgNotApproved == "You can only vote for approved photos!"
MsgSelfVote == "You cannot vote on your own photo!"
MsgVoteCast == "Vote cast successfully!"
MsgVoteError == "An error occurred while casting your vote."
MsgAlreadyVoted == "You have already voted for this photo!"
MsgSubmitted == "Photo submitted successfully!"
MsgInsufficient == "Insufficient coins"
MsgSubmitFailed == "Submission failed. Please try again."
MsgFinalized == "Contest finalized and prizes awarded!"
MsgFinalizeFailed == "Finalization failed"
MsgApproved == "Submission approved!"
MsgPhotoDeleted == "Photo deleted successfully!"
MsgPhotoUnauthorized == "Photo not found or unauthorized"
MsgContestCreated == "Contest created successfully!"
MsgNoContest == "Contest not found"
MsgPrizeAwarded == "Prize awarded"
MsgPleaseLogin == "Please login to access this page"
MsgAdminRequired == "Admin access required"
MsgWelcome == "Welcome back"
MsgInvalidLogin == "Invalid email or password"
MsgAdminWelcome == "Welcome, Admin"
MsgInvalidAdmin == "Invalid credentials"
MsgLoggedOut == "You have been logged out"
MsgTitleUpdated == "Photo title updated successfully!"
MsgContestFailed == "Contest creation failed"

Resp(op, msg) == [op |-> op, flash |-> msg]

\* ---------------------------------------------------------------- session
\* The session without a 'user_id' and without an 'admin_id' key.
NoSession == [user_id |-> 0, admin_id |-> 0]

\* 'user_id' in session
UserInSession == session.user_id # 0

\* The admin check made on the user's key.
AdminInSessionByUser == session.user_id # 0

\* 'admin_id' in session
AdminInSession == session.admin_id # 0

\* What every handler but login, admin_login and logout leaves alone.
Untouched == <<now, dbVars, files, voteReq, lbVars, session, rowVars>>

\* The decorator of the user routes around the handler's step f.
login_required(f) ==
    IF ~UserInSession
    THEN /\ last' = Resp("login_required", MsgPleaseLogin)
         /\ UNCHANGED Untouched
    ELSE f

\* The decorator of the admin routes around the handler's step f.
admin_required(f) ==
    IF ~AdminInSession
    THEN /\ last' = Resp("admin_required", MsgAdminRequired)
         /\ UNCHANGED Untouched
    ELSE f

\* POST /login: ok says whether the e-mail is u's and the password matches.
login(u, ok) ==
    /\ IF ok
       THEN /\ session' = [session EXCEPT !.user_id = u]
            /\ last' = Resp("login", MsgWelcome)
       ELSE /\ UNCHANGED session
            /\ last' = Resp("login", MsgInvalidLogin)
    /\ UNCHANGED <<now, dbVars, files, voteReq, lbVars, rowVars>>

\* POST /admin/login
admin_login(a, ok) ==
    /\ IF ok
       THEN /\ session' = [session EXCEPT !.admin_id = a]
            /\ last' = Resp("admin_login", MsgAdminWelcome)
       ELSE /\ UNCHANGED session
            /\ last' = Resp("admin_login", MsgInvalidAdmin)
    /\ UNCHANGED <<now, dbVars, files, voteReq, lbVars, rowVars>>

\* GET /logout
logout ==
    /\ session' = NoSession
    /\ last' = Resp("logout", MsgLoggedOut)
    /\ UNCHANGED <<now, dbVars, files, voteReq, lbVars, rowVars>>

\* GET /dashboard: reads only.
dashboard(u) ==
    /\ last' = Resp("dashboard", NoFlash)
    /\ UNCHANGED Untouched

\* GET /api/user/stats: reads only.
api_user_stats(u) ==
    /\ last' = Resp("api_user_stats", NoFlash)
    /\ UNCHANGED Untouched

\* GET /admin/dashboard: reads only.
admin_dashboard ==
    /\ last' = Resp("admin_dashboard", NoFlash)
    /\ UNCHANGED Untouched

\* ------------------------------------------------------- status recompute
\* BETWEEN taken as exclusive of its end points.
StatusCaseExclusive(t, c) ==
    IF t < c.StartDate THEN "Upcoming"
    ELSE IF c.StartDate < t /\ t < c.EndDate THEN "Active"
    ELSE IF t > c.EndDate THEN "Completed"
    ELSE c.Status

\* The 'Active' and 'Completed' labels exchanged.
StatusCaseSwapped(t, c) ==
    IF t < c.StartDate THEN "Upcoming"
    ELSE IF c.StartDate <= t /\ t <= c.EndDate THEN "Completed"
    ELSE IF t > c.EndDate THEN "Active"
    ELSE c.Status

\* The CASE expression of the UPDATE Contest statement.
StatusCase(t, c) ==
    IF t < c.StartDate THEN "Upcoming"
    ELSE IF c.StartDate <= t /\ t <= c.EndDate THEN "Active"
    ELSE IF t > c.EndDate THEN "Completed"
    ELSE c.Status

\* The UPDATE without its WHERE clause.
index_update_all(tbl, t) ==
    [i \in DOMAIN tbl |-> [tbl[i] EXCEPT !.Status = StatusCase(t, tbl[i])]]

\* UPDATE Contest SET Status = CASE ... WHERE Status NOT IN ('Cancelled'), in index().
index_update(tbl, t) ==
    [i \in DOMAIN tbl |->
        IF tbl[i].Status \notin {"Cancelled"}
        THEN [tbl[i] EXCEPT !.Status = StatusCase(t, tbl[i])]
        ELSE tbl[i]]

\* The trigger's UPDATE without its WHERE clause.
api_update_all(tbl, t) ==
    [i \in DOMAIN tbl |-> [tbl[i] EXCEPT !.Status = StatusCase(t, tbl[i])]]

\* The same statement in api_update_statuses().
api_update(tbl, t) ==
    [i \in DOMAIN tbl |->
        IF tbl[i].Status \notin {"Cancelled"}
        THEN [tbl[i] EXCEPT !.Status = StatusCase(t, tbl[i])]
        ELSE tbl[i]]

\* GET / : recompute, then list the active contests (a read).
index ==
    /\ Contest' = index_update(Contest, now)
    /\ last' = Resp("index", NoFlash)
    /\ UNCHANGED <<now, Coins, Photo, Submission, Votes, nextPhotoID, files, voteReq>>
    /\ UNCHANGED <<lbVars, session, rowVars>>

\* POST /api/admin/update-statuses
api_update_statuses ==
    /\ Contest' = api_update(Contest, now)
    /\ last' = Resp("api_update_statuses", NoFlash)
    /\ UNCHANGED <<now, Coins, Photo, Submission, Votes, nextPhotoID, files, voteReq>>
    /\ UNCHANGED <<lbVars, session, rowVars>>

\* The database clock advances.
Tick ==
    /\ now < MaxTime
    /\ now' = now + 1
    /\ last' = Resp("tick", NoFlash)
    /\ UNCHANGED <<dbVars, files, voteReq, lbVars, session, rowVars>>

\* --------------------------------------------------------- create contest
\* Status is not among the inserted columns: the column default applies.
DefaultStatus == "Upcoming"

NewContest(s, e, fee, prize) ==
    [StartDate |-> s, EndDate |-> e, Entry_fee |-> fee, Prize_points |-> prize,
     Status |-> DefaultStatus]

\* request.form.get(name): the value when the form has the field, else None.
Absent == << >>
Present(v) == <<v>>

\* The forms POSTed to /admin/contests/create.
ContestForms ==
    [title : {Absent, Present(BlankTitle), Present(ContestTitle)},
     start_date : {Absent} \cup {Present(t) : t \in Times},
     end_date : {Absent} \cup {Present(t) : t \in Times},
     max_participants : {Absent} \cup {Present(n) : n \in ParticipantChoices},
     prize_points : {Absent} \cup {Present(n) : n \in PrizeChoices},
     entry_fee : {Absent} \cup {Present(n) : n \in EntryFees}]

FormFields == {"title", "start_date", "end_date", "max_participants",
               "prize_points", "entry_fee"}

\* The INSERT raises when a column gets NULL (columns declared NOT NULL).
ContestInsertRaises(form) == \E f \in FormFields : form[f] = Absent

\* `if success:` on what execute_query returned: None when the INSERT raised,
\* else the lastrowid of an AUTO_INCREMENT insert, which is at least 1.
CreateFlash(success) == IF success # None THEN MsgContestCreated ELSE MsgContestFailed

\* The Contest table has room for another row.
ContestRoom == Len(Contest) < Cardinality(ContestIDs)

\* POST /admin/contests/create: no check of the form precedes the INSERT.
create_contest(form) ==
    /\ Contest' = IF ContestInsertRaises(form) THEN Contest
                  ELSE Append(Contest, NewContest(form.start_date[1], form.end_date[1],
                                                  form.entry_fee[1], form.prize_points[1]))
    /\ last' = Resp("create_contest",
                    CreateFlash(IF ContestInsertRaises(form) THEN None ELSE LastRowID))
    /\ UNCHANGED <<now, Coins, Photo, Submission, Votes, nextPhotoID, files, voteReq>>
    /\ UNCHANGED <<lbVars, session, rowVars>>

\* ------------------------------------------------------------ submission
\* 'successfully' in message.lower(), over the messages the procedure returns.
ContainsSuccessfully(m) == m \in {MsgSubmitted}

\* sp_submit_photo_to_contest, preconditions: the contest exists and the user
\* has Coins >= Contest.EntryFee.
SubmitAllowed(u, c) == c \in DOMAIN Contest /\ Coins[u] >= Contest[c].Entry_fee

\* What call_procedure returns for the procedure's two outcomes: the result
\* rows, or None when the procedure raised and the transaction was rolled back.
SubmitResults(u, c) ==
    IF SubmitAllowed(u, c)
    THEN {Rows(<<[Message |-> MsgSubmitted]>>)}
    ELSE {Rows(<<[Message |-> MsgInsufficient]>>), None}

\* The os.remove of the else branch (no result rows) left out.
SubmitKeepsFileNoCleanup(result) ==
    IF result # None /\ Len(result.rows) > 0
    THEN ContainsSuccessfully(result.rows[1].Message)
    ELSE TRUE

\* submit_photo after the procedure call: is the uploaded file kept?
SubmitKeepsFile(result) ==
    IF result # None /\ Len(result.rows) > 0
    THEN ContainsSuccessfully(result.rows[1].Message)
    ELSE FALSE

SubmitFlash(result) ==
    IF result # None /\ Len(result.rows) > 0
    THEN (IF ContainsSuccessfully(result.rows[1].Message) THEN MsgSubmitted
          ELSE result.rows[1].Message)
    ELSE MsgSubmitFailed

\* sp_submit_photo_to_contest, effect: in one transaction insert the Photo,
\* insert the submission as Pending and debit the fee; nothing when a
\* precondition fails.
sp_submit_photo_to_contest(u, c) ==
    IF SubmitAllowed(u, c)
    THEN /\ Photo' = Photo \cup {[PhotoID |-> nextPhotoID, UserID |-> u]}
         /\ Submission' = Submission \cup
                {[SubmissionID |-> nextPhotoID, PhotoID |-> nextPhotoID,
                  ContestID |-> c, SubmissionStatus |-> "Pending"]}
         /\ Title' = Title \cup {[PhotoID |-> nextPhotoID, Title |-> SubmittedTitle]}
         /\ Coins' = [Coins EXCEPT ![u] = @ - Contest[c].Entry_fee]
         /\ nextPhotoID' = nextPhotoID + 1
    ELSE UNCHANGED <<Photo, Title, Submission, Coins, nextPhotoID>>

\* POST /submit_photo/<contest_id> with a title and an allowed file: the file
\* is saved under a fresh name, the procedure is called, and the file is
\* removed again unless the procedure's message says 'successfully'.
submit_photo(u, c) ==
    IF c \notin DOMAIN Contest
    THEN /\ last' = Resp("submit_photo", MsgNoContest)
         /\ UNCHANGED <<now, dbVars, files, voteReq, lbVars, session, rowVars>>
    ELSE \E result \in SubmitResults(u, c) :
         LET f == nextPhotoID
             saved == files \cup {f}
         IN  /\ (SubmitAllowed(u, c) => nextPhotoID <= MaxPhotos)
             /\ sp_submit_photo_to_contest(u, c)
             /\ files' = IF SubmitKeepsFile(result) THEN saved ELSE saved \ {f}
             /\ last' = Resp("submit_photo", SubmitFlash(result))
             /\ UNCHANGED <<now, Contest, Votes, voteReq, lbVars, session, prizeCredits>>

\* POST /admin/submissions/<submission_id>/approve
approve_submission(sid) ==
    /\ Submission' = {IF s.SubmissionID = sid
                      THEN [s EXCEPT !.SubmissionStatus = "Approved"] ELSE s :
                      s \in Submission}
    /\ last' = Resp("approve_submission", MsgApproved)
    /\ UNCHANGED <<now, Contest, Coins, Photo, Votes, nextPhotoID, files, voteReq, lbVars, session, rowVars>>

\* Rows that reference a deleted Photo go with it (foreign keys of the schema).
PhotoCascade(rows, p) == {r \in rows : r.PhotoID # p}

\* The ownership condition left out of the lookup.
PhotoOfAnyUser(p, u) == {ph \in Photo : ph.PhotoID = p}

\* SELECT ... FROM Photo WHERE PhotoID = %s AND UserID = %s, the lookup that
\* opens edit_photo and delete_photo.
PhotoOfUser(p, u) == {ph \in Photo : ph.PhotoID = p /\ ph.UserID = u}

\* POST /photo/<photo_id>/delete
delete_photo(u, p) ==
    IF PhotoOfUser(p, u) = {}
    THEN /\ last' = Resp("delete_photo", MsgPhotoUnauthorized)
         /\ UNCHANGED <<now, dbVars, files, voteReq, lbVars, session, rowVars>>
    ELSE /\ files' = files \ {p}
         /\ Photo' = {ph \in Photo : ph.PhotoID # p}
         /\ Title' = {r \in Title : r.PhotoID # p}
         /\ Submission' = PhotoCascade(Submission, p)
         /\ Votes' = PhotoCascade(Votes, p)
         /\ last' = Resp("delete_photo", MsgPhotoDeleted)
         /\ UNCHANGED <<now, Contest, Coins, nextPhotoID, voteReq, lbVars, session,
                        prizeCredits>>

\* POST /photo/<photo_id>/edit with a new title
edit_photo(u, p, new_title) ==
    IF PhotoOfUser(p, u) = {}
    THEN /\ last' = Resp("edit_photo", MsgPhotoUnauthorized)
         /\ UNCHANGED <<now, dbVars, files, voteReq, lbVars, session, rowVars>>
    ELSE /\ Title' = {IF r.PhotoID = p THEN [r EXCEPT !.Title = new_title] ELSE r :
                        r \in Title}
         /\ last' = Resp("edit_photo", MsgTitleUpdated)
         /\ UNCHANGED <<now, dbVars, files, voteReq, lbVars, session, prizeCredits>>

\* ----------------------------------------------------------------- voting
Idle == [pc |-> "idle", user |-> 0, photo |-> 0, contest |-> 0]

\* execute_query(..., commit=True): lastrowid, or None when the statement
\* raised (the Error is caught inside execute_query and never reaches vote()).
execute_query_commit(raised) == IF raised THEN None ELSE LastRowID

\* The flash vote() chooses from what execute_query returned.
VoteInsertFlash(success) == IF success # None THEN MsgVoteCast ELSE MsgVoteError

\* SELECT Status FROM Contest WHERE ContestID = c, and the two checks on it.
vote_contest(u, p, c) ==
    /\ voteReq.pc = "idle"
    /\ IF c \notin DOMAIN Contest
       THEN /\ last' = Resp("vote", MsgContestNotFound)
            /\ UNCHANGED voteReq
       ELSE IF Contest[c].Status # "Active"
       THEN /\ last' = Resp("vote", MsgNotActive)
            /\ UNCHANGED voteReq
       ELSE /\ voteReq' = [pc |-> "submission", user |-> u, photo |-> p, contest |-> c]
            /\ last' = Resp("vote_step", NoFlash)
    /\ UNCHANGED <<now, dbVars, files, lbVars, session, rowVars>>

\* SELECT pcs.SubmissionStatus, p.UserID FROM PhotoContestSubmission pcs
\* JOIN Photo p ... WHERE pcs.PhotoID = p AND pcs.ContestID = c
SubmissionJoin(p, c) ==
    {[SubmissionStatus |-> s.SubmissionStatus, UserID |-> ph.UserID] :
        <<s, ph>> \in {x \in Submission \X Photo :
                          /\ x[1].PhotoID = x[2].PhotoID
                          /\ x[1].PhotoID = p
                          /\ x[1].ContestID = c}}

\* The own-photo check made before the approval check.
VoteSubmissionCheckOwnerFirst(u, rows) ==
    IF rows = {} THEN MsgNotInContest
    ELSE LET submission == CHOOSE r \in rows : TRUE
         IN  IF submission.UserID = u THEN MsgSelfVote
             ELSE IF submission.SubmissionStatus # "Approved" THEN MsgNotApproved
             ELSE NoFlash

\* The own-photo check left out.
VoteSubmissionCheckNoOwner(u, rows) ==
    IF rows = {} THEN MsgNotInContest
    ELSE LET submission == CHOOSE r \in rows : TRUE
         IN  IF submission.SubmissionStatus # "Approved" THEN MsgNotApproved
             ELSE NoFlash

\* The checks of vote() on the fetched submission row, in the code's order.
VoteSubmissionCheck(u, rows) ==
    IF rows = {} THEN MsgNotInContest
    ELSE LET submission == CHOOSE r \in rows : TRUE
         IN  IF submission.SubmissionStatus # "Approved" THEN MsgNotApproved
             ELSE IF submission.UserID = u THEN MsgSelfVote
             ELSE NoFlash

vote_submission(u) ==
    /\ voteReq.pc = "submission"
    /\ voteReq.user = u
    /\ LET msg == VoteSubmissionCheck(u, SubmissionJoin(voteReq.photo, voteReq.contest))
       IN  IF msg # NoFlash
           THEN /\ last' = Resp("vote", msg)
                /\ voteReq' = Idle
           ELSE /\ last' = Resp("vote_step", NoFlash)
                /\ voteReq' = [voteReq EXCEPT !.pc = "insert"]
    /\ UNCHANGED <<now, dbVars, files, lbVars, session, rowVars>>

\* The INSERT INTO Votes raises on the unique key (UserID, PhotoID, ContestID)
\* and on a PhotoID or ContestID that no longer exists.
VoteInsertRaises(row) ==
    \/ row \in Votes
    \/ \A ph \in Photo : ph.PhotoID # row.PhotoID
    \/ row.ContestID \notin DOMAIN Contest

vote_insert(u) ==
    /\ voteReq.pc = "insert"
    /\ voteReq.user = u
    /\ LET row == [UserID |-> u, PhotoID |-> voteReq.photo,
                   ContestID |-> voteReq.contest]
           success == execute_query_commit(VoteInsertRaises(row))
       IN  /\ Votes' = IF success # None THEN Votes \cup {row} ELSE Votes
           /\ last' = Resp("vote", VoteInsertFlash(success))
    /\ voteReq' = Idle
    /\ UNCHANGED <<now, Contest, Coins, Photo, Submission, nextPhotoID, files, lbVars, session, rowVars>>

\* --------------------------------------------------------------- finalize
VoteCount(p, c) == Cardinality({v \in Votes : v.PhotoID = p /\ v.ContestID = c})

ApprovedIn(c) ==
    {s \in Submission : s.ContestID = c /\ s.SubmissionStatus = "Approved"}

\* sp_award_prize_to_winner: the top-ranked Approved submissions of the contest.
Winners(c) ==
    {s \in ApprovedIn(c) :
        \A o \in ApprovedIn(c) : VoteCount(o.PhotoID, c) <= VoteCount(s.PhotoID, c)}

OwnerOf(p) == (CHOOSE ph \in Photo : ph.PhotoID = p).UserID

\* Python truthiness of what call_procedure returned.
Truthy(result) == result # None /\ Len(result.rows) > 0

\* The success flash made whatever the procedure returned.
FinalizeFlashAlways(result) == MsgFinalized

FinalizeFlash(result) == IF Truthy(result) THEN MsgFinalized ELSE MsgFinalizeFailed

\* sp_award_prize_to_winner, effect: credit the winner's owner with the
\* contest's Prize_points.
sp_award_prize_to_winner(c, w) ==
    Coins' = [Coins EXCEPT ![OwnerOf(w.PhotoID)] = @ + Contest[c].Prize_points]

\* What call_procedure returns: None when the procedure raised (no such
\* contest, no Approved submission), its result rows otherwise.
AwardResult(c) ==
    IF c \notin DOMAIN Contest \/ Winners(c) = {}
    THEN None
    ELSE Rows(<<[Message |-> MsgPrizeAwarded]>>)

\* POST /admin/contest/<contest_id>/finalize
finalize_contest(c) ==
    /\ last' = Resp("finalize_contest", FinalizeFlash(AwardResult(c)))
    /\ IF AwardResult(c) = None
       THEN UNCHANGED <<Coins, prizeCredits>>
       ELSE \E w \in Winners(c) :
               /\ Coins[OwnerOf(w.PhotoID)] + Contest[c].Prize_points <= MaxCoins
               /\ sp_award_prize_to_winner(c, w)
               /\ prizeCredits' = [prizeCredits EXCEPT ![c] = @ + 1]
    /\ UNCHANGED <<now, Contest, Photo, Submission, Votes, nextPhotoID, files,
                   voteReq, lbVars, session, Title>>

\* ------------------------------------------------------------ leaderboard
\* ORDER BY COUNT(DISTINCT v.VoteID) DESC: the window's ordered partition.
RECURSIVE InsertDesc(_, _)
InsertDesc(sorted, x) ==
    IF sorted = << >> THEN <<x>>
    ELSE IF x >= Head(sorted) THEN <<x>> \o sorted
    ELSE <<Head(sorted)>> \o InsertDesc(Tail(sorted), x)

RECURSIVE SortDesc(_)
SortDesc(s) == IF s = << >> THEN << >> ELSE InsertDesc(SortDesc(Tail(s)), Head(s))

\* DENSE_RANK() in place of RANK(): no gap after a tie.
RECURSIVE RankAtDense(_, _)
RankAtDense(sorted, i) ==
    IF i = 1 THEN 1
    ELSE IF sorted[i] = sorted[i - 1] THEN RankAtDense(sorted, i - 1)
    ELSE RankAtDense(sorted, i - 1) + 1

\* RANK(): a row of the ordered partition gets the row number of its first peer.
RECURSIVE RankAt(_, _)
RankAt(sorted, i) ==
    IF i = 1 THEN 1
    ELSE IF sorted[i] = sorted[i - 1] THEN RankAt(sorted, i - 1)
    ELSE i

\* The `Rank` column of contest_detail's leaderboard, row by row, from the rows'
\* TotalVotes.
LeaderboardRanks(counts) ==
    LET sorted == SortDesc(counts)
    IN  [j \in DOMAIN counts |->
            RankAt(sorted, CHOOSE i \in DOMAIN sorted : sorted[i] = counts[j])]

\* GET /contest/<contest_id>: the leaderboard query over the grouped rows.
contest_detail ==
    /\ lbRanks = << >>
    /\ lbCounts # << >>
    /\ lbRanks' = LeaderboardRanks(lbCounts)
    /\ last' = Resp("contest_detail", NoFlash)
    /\ UNCHANGED <<now, dbVars, files, voteReq, lbCounts, session, rowVars>>

Init ==
    /\ now = 0
    /\ Contest \in {<< >>} \cup
          {<<[NewContest(s, e, f, p) EXCEPT !.Status = "Cancelled"]>> :
              s \in Times, e \in Times, f \in EntryFees, p \in PrizeChoices}
    /\ Coins = [u \in Users |-> StartCoins]
    /\ Photo = {}
    /\ Submission = {}
    /\ Votes = {}
    /\ nextPhotoID = 1
    /\ files = {}
    /\ voteReq = Idle
    /\ last = Resp("start", NoFlash)
    /\ session = NoSession
    /\ Title = {}
    /\ prizeCredits = [c \in ContestIDs |-> 0]
    /\ lbCounts = << >>
    /\ lbRanks = << >>

\* Requests as the handlers see them: each carries the identity its session
\* was given at login (u, or the admin).
Next ==
    \/ Tick
    \/ index
    \/ api_update_statuses
    \/ ContestRoom /\ \E form \in ContestForms : create_contest(form)
    \/ \E u \in Users, c \in ContestIDs : submit_photo(u, c)
    \/ \E sid \in PhotoIDs : approve_submission(sid)
    \/ \E u \in Users, p \in PhotoIDs : delete_photo(u, p)
    \/ \E u \in Users, p \in PhotoIDs, c \in ContestIDs : vote_contest(u, p, c)
    \/ \E u \in Users : vote_submission(u)
    \/ \E u \in Users : vote_insert(u)
    \/ \E c \in ContestIDs : finalize_contest(c)

Spec == Init /\ [][Next]_vars

\* One browser's session in front of the routes: logins, logout, and every
\* request passing its route's decorator with what the session holds.
NextSession ==
    \/ Tick
    \/ index
    \/ api_update_statuses
    \/ \E u \in Users, ok \in BOOLEAN : login(u, ok)
    \/ \E a \in Admins, ok \in BOOLEAN : admin_login(a, ok)
    \/ logout
    \/ login_required(dashboard(session.user_id))
    \/ login_required(api_user_stats(session.user_id))
    \/ admin_required(admin_dashboard)
    \/ admin_required(ContestRoom /\ \E form \in ContestForms : create_contest(form))
    \/ login_required(\E c \in ContestIDs : submit_photo(session.user_id, c))
    \/ admin_required(\E sid \in PhotoIDs : approve_submission(sid))
    \/ login_required(\E p \in PhotoIDs, t \in EditedTitles :
                         edit_photo(session.user_id, p, t))
    \/ login_required(\E p \in PhotoIDs : delete_photo(session.user_id, p))
    \/ login_required(\E p \in PhotoIDs, c \in ContestIDs :
                         vote_contest(session.user_id, p, c))
    \/ \E u \in Users : vote_submission(u)
    \/ \E u \in Users : vote_insert(u)
    \/ admin_required(\E c \in ContestIDs : finalize_contest(c))

SpecSession == Init /\ [][NextSession]_vars

\* The ranking specification: the leaderboard query applied to every list of
\* per-photo vote counts within the bounds.
CountLists == UNION {[1..n -> 0..MaxVotes] : n \in 0..MaxRows}

InitRank ==
    /\ now = 0
    /\ Contest = << >>
    /\ Coins = [u \in Users |-> StartCoins]
    /\ Photo = {}
    /\ Submission = {}
    /\ Votes = {}
    /\ nextPhotoID = 1
    /\ files = {}
    /\ voteReq = Idle
    /\ last = Resp("start", NoFlash)
    /\ session = NoSession
    /\ Title = {}
    /\ prizeCredits = [c \in ContestIDs |-> 0]
    /\ lbCounts \in CountLists
    /\ lbRanks = << >>

NextRank == contest_detail

SpecRank == InitRank /\ [][NextRank]_vars

\* ================================================================ claims
\* The error classes of the specification, by the messages vote() flashes.
InvalidStateError == {MsgContestNotFound, MsgNotActive}
NotEligibleError == {MsgNotInContest, MsgNotApproved}
SelfVoteError == {MsgSelfVote}

Recompute == index \/ api_update_statuses
RecomputeActed == last.op \in {"index", "api_update_statuses"}

\* The vote request of user u has ended in this step without a Votes row.
VoteRejected == voteReq'.pc = "idle" /\ Votes' = Votes

HasApproved(p, c) ==
    \E r \in SubmissionJoin(p, c) : r.SubmissionStatus = "Approved"

OwnsInContest(u, p, c) == \E r \in SubmissionJoin(p, c) : r.UserID = u

\* C1: no step (a status recompute of either route or any other operation)
\* takes a contest whose Status is Cancelled to another Status.
C1_CancelledSticky ==
    [][\A c \in DOMAIN Contest :
          Contest[c].Status = "Cancelled" =>
              c \in DOMAIN Contest' /\ Contest'[c].Status = "Cancelled"]_vars

\* A recompute has run at a time inside the window of a Cancelled contest.
C1_Witness ==
    /\ RecomputeActed
    /\ \E c \in DOMAIN Contest :
          /\ Contest[c].Status = "Cancelled"
          /\ Contest[c].StartDate <= now
          /\ now <= Contest[c].EndDate

\* C2: vote() reports the first failing check, in the order contest (missing or
\* not Active: invalid state), submission (missing or not Approved: not
\* eligible), own photo (self vote), and inserts no Votes row in these cases.
C2_VoteValidationOrder ==
    [][/\ \A u \in Users, p \in PhotoIDs, c \in ContestIDs :
             (/\ vote_contest(u, p, c)
              /\ (c \notin DOMAIN Contest \/ Contest[c].Status # "Active"))
             => (last'.flash \in InvalidStateError /\ VoteRejected)
       /\ \A u \in Users :
             vote_submission(u) =>
                 /\ ~HasApproved(voteReq.photo, voteReq.contest)
                    => (last'.flash \in NotEligibleError /\ VoteRejected)
                 /\ (/\ HasApproved(voteReq.photo, voteReq.contest)
                     /\ OwnsInContest(u, voteReq.photo, voteReq.contest))
                    => (last'.flash \in SelfVoteError /\ VoteRejected)]_vars

\* A vote got as far as the own-photo check and was rejected by it.
C2_Witness == last = Resp("vote", MsgSelfVote) /\ voteReq.pc = "idle"

\* C3 as stated: a vote by the photo's owner ends with the self-vote error
\* whatever the contest Status and the SubmissionStatus are.
C3_SelfVoteAlways ==
    [][/\ \A u \in Users, p \in PhotoIDs, c \in ContestIDs :
             (/\ vote_contest(u, p, c)
              /\ [PhotoID |-> p, UserID |-> u] \in Photo
              /\ voteReq'.pc = "idle")
             => last'.flash \in SelfVoteError
       /\ \A u \in Users :
             (/\ vote_submission(u)
              /\ [PhotoID |-> voteReq.photo, UserID |-> u] \in Photo)
             => last'.flash \in SelfVoteError]_vars

\* C3 amended: a vote by the photo's owner never inserts a Votes row; it ends
\* with the self-vote error when the contest was read Active and the submission
\* is Approved, with the invalid-state error when the contest is missing or not
\* Active, and with the not-eligible error when the submission is missing or
\* not Approved.
C3_SelfVoteAfterEarlierChecks ==
    [][/\ \A u \in Users, p \in PhotoIDs, c \in ContestIDs :
             (/\ vote_contest(u, p, c)
              /\ [PhotoID |-> p, UserID |-> u] \in Photo
              /\ voteReq'.pc = "idle")
             => (last'.flash \in InvalidStateError /\ Votes' = Votes)
       /\ \A u \in Users :
             (/\ vote_submission(u)
              /\ [PhotoID |-> voteReq.photo, UserID |-> u] \in Photo)
             => /\ VoteRejected
                /\ IF HasApproved(voteReq.photo, voteReq.contest)
                   THEN last'.flash \in SelfVoteError
                   ELSE last'.flash \in NotEligibleError
       /\ \A v \in Votes' \ Votes :
             [PhotoID |-> v.PhotoID, UserID |-> v.UserID] \notin Photo]_vars

\* The owner of an Approved photo voted for it in an Active contest.
C3_Witness ==
    /\ last = Resp("vote", MsgSelfVote)
    /\ \E s \in Submission :
          /\ s.SubmissionStatus = "Approved"
          /\ s.ContestID \in DOMAIN Contest
          /\ Contest[s.ContestID].Status = "Active"

\* C4 as stated: a vote that passed validation and whose (UserID, PhotoID,
\* ContestID) row is already in Votes leaves that one row and reports the
\* duplicate-vote error.
C4_DuplicateVoteReported ==
    [][\A u \in Users :
          (/\ vote_insert(u)
           /\ [UserID |-> u, PhotoID |-> voteReq.photo,
               ContestID |-> voteReq.contest] \in Votes)
          => (Votes' = Votes /\ last'.flash = MsgAlreadyVoted)]_vars

\* C5 as stated: a Votes row is inserted only in a state where the contest's
\* stored Status is Active, the photo's submission into the contest is
\* Approved and the voter does not own the photo.
C5_VoteOnlyWhenValid ==
    [][\A v \in Votes' \ Votes :
          /\ v.ContestID \in DOMAIN Contest'
          /\ Contest'[v.ContestID].Status = "Active"
          /\ \E s \in Submission' :
                /\ s.PhotoID = v.PhotoID
                /\ s.ContestID = v.ContestID
                /\ s.SubmissionStatus = "Approved"
          /\ [PhotoID |-> v.PhotoID, UserID |-> v.UserID] \notin Photo']_vars

\* C6 as stated: after a recompute at time now a contest that was not
\* Cancelled is Upcoming if now < StartDate, Active if StartDate <= now <=
\* EndDate, and Completed if now > EndDate.
C6_RecomputeThreeWay ==
    [][Recompute =>
          \A c \in DOMAIN Contest :
             Contest[c].Status # "Cancelled" =>
                /\ now < Contest[c].StartDate => Contest'[c].Status = "Upcoming"
                /\ (Contest[c].StartDate <= now /\ now <= Contest[c].EndDate)
                   => Contest'[c].Status = "Active"
                /\ now > Contest[c].EndDate => Contest'[c].Status = "Completed"]_vars

\* C6 amended: after a recompute at time now a contest that was not Cancelled
\* is Upcoming if now < StartDate; otherwise Active if now <= EndDate;
\* otherwise (now >= StartDate and now > EndDate) Completed.
C6_RecomputeFirstMatch ==
    [][Recompute =>
          \A c \in DOMAIN Contest :
             Contest[c].Status # "Cancelled" =>
                /\ now < Contest[c].StartDate => Contest'[c].Status = "Upcoming"
                /\ (Contest[c].StartDate <= now /\ now <= Contest[c].EndDate)
                   => Contest'[c].Status = "Active"
                /\ (now >= Contest[c].StartDate /\ now > Contest[c].EndDate)
                   => Contest'[c].Status = "Completed"]_vars

\* A recompute has run after the EndDate and before the StartDate of a contest
\* created with StartDate > EndDate.
C6_Witness ==
    /\ RecomputeActed
    /\ \E c \in DOMAIN Contest :
          /\ Contest[c].EndDate < now
          /\ now < Contest[c].StartDate
          /\ Contest[c].Status = "Upcoming"

\* C7: in no step does a contest go from Completed to Active or Upcoming, or
\* from Active to Upcoming (the clock never goes back).
C7_StatusMonotonic ==
    [][/\ now' >= now
       /\ \A c \in DOMAIN Contest :
             /\ c \in DOMAIN Contest'
             /\ Contest[c].Status = "Completed"
                => Contest'[c].Status \notin {"Active", "Upcoming"}
             /\ Contest[c].Status = "Active"
                => Contest'[c].Status # "Upcoming"]_vars

\* A recompute has taken a contest to Completed.
C7_Witness ==
    /\ RecomputeActed
    /\ \E c \in DOMAIN Contest : Contest[c].Status = "Completed"

\* C8: submit_photo by a user whose Coins are below the contest's Entry_fee
\* changes no Coins, no Photo row and no submission row, does not report
\* success, and leaves no uploaded file behind.
C8_SubmitInsufficientNoEffect ==
    [][\A u \in Users, c \in ContestIDs :
          (/\ submit_photo(u, c)
           /\ c \in DOMAIN Contest
           /\ Coins[u] < Contest[c].Entry_fee)
          => /\ Coins' = Coins
             /\ Photo' = Photo
             /\ Submission' = Submission
             /\ nextPhotoID \notin files'
             /\ files' = files
             /\ last'.flash \in {MsgInsufficient, MsgSubmitFailed}]_vars

\* A submission was turned down for a user who cannot pay the fee.
C8_Witness ==
    /\ last.op = "submit_photo"
    /\ last.flash \in {MsgInsufficient, MsgSubmitFailed}
    /\ \E u \in Users, c \in DOMAIN Contest : Coins[u] < Contest[c].Entry_fee

\* C9: each leaderboard row's Rank is 1 plus the number of rows with strictly
\* more votes; vote counts <<5, 5, 3, 1>> get ranks <<1, 1, 3, 4>>.
C9_RankIsCompetitionRank ==
    lbRanks # << >> =>
        /\ DOMAIN lbRanks = DOMAIN lbCounts
        /\ \A j \in DOMAIN lbCounts :
              lbRanks[j] =
                  1 + Cardinality({k \in DOMAIN lbCounts : lbCounts[k] > lbCounts[j]})
        /\ lbCounts = <<5, 5, 3, 1>> => lbRanks = <<1, 1, 3, 4>>

\* The leaderboard of the example has been computed.
C9_Witness == lbCounts = <<5, 5, 3, 1>> /\ lbRanks = <<1, 1, 3, 4>>

UserOps == {"dashboard", "submit_photo", "vote", "vote_step", "edit_photo",
            "delete_photo", "api_user_stats"}
AdminOps == {"admin_dashboard", "create_contest", "approve_submission",
             "finalize_contest"}

\* C11: a handler behind login_required answers a request only when the
\* session holds a user identity, one behind admin_required only when it holds
\* an admin identity; the identity is put there by a successful login only and
\* removed by logout; a request without it gets the decorator's flash and
\* changes no table, title or file. A vote already admitted runs to its end
\* for the user it was admitted for.
C11_SessionGates ==
    [][/\ (last'.op \in UserOps /\ voteReq.pc = "idle")
            => (session.user_id \in Users /\ session' = session)
       /\ (last'.op \in UserOps /\ voteReq.pc # "idle")
            => (voteReq.user \in Users /\ session' = session)
       /\ last'.op \in AdminOps => (session.admin_id \in Admins /\ session' = session)
       /\ last'.op = "login_required"
            => /\ session.user_id = 0
               /\ last'.flash = MsgPleaseLogin
               /\ UNCHANGED <<dbVars, files, Title, session, voteReq>>
       /\ last'.op = "admin_required"
            => /\ session.admin_id = 0
               /\ last'.flash = MsgAdminRequired
               /\ UNCHANGED <<dbVars, files, Title, session, voteReq>>
       /\ session'.user_id # session.user_id
            => \/ last' = Resp("login", MsgWelcome) /\ session'.user_id \in Users
               \/ last'.op = "logout" /\ session'.user_id = 0
       /\ session'.admin_id # session.admin_id
            => \/ last' = Resp("admin_login", MsgAdminWelcome)
                  /\ session'.admin_id \in Admins
               \/ last'.op = "logout" /\ session'.admin_id = 0
       /\ last'.op = "logout" => session' = NoSession]_vars

\* After a login, a submission and a logout, a protected request was turned
\* away.
C11_Witness ==
    /\ last = Resp("login_required", MsgPleaseLogin)
    /\ session.user_id = 0
    /\ Photo # {}

\* C12: a Photo row disappears, and a Photo's Title changes, only in a
\* delete_photo or edit_photo request of the session user who owns the photo;
\* such a request on another user's photo leaves the Photo rows, the titles
\* and the files as they were.
C12_OwnerOnly ==
    [][/\ \A ph \in Photo :
             ph \notin Photo'
                => (last'.op = "delete_photo" /\ session.user_id = ph.UserID)
       /\ \A r \in Title :
             (\E r2 \in Title' : r2.PhotoID = r.PhotoID /\ r2.Title # r.Title)
                => (last'.op = "edit_photo" /\ session.user_id = OwnerOf(r.PhotoID))
       /\ \A p \in PhotoIDs, t \in EditedTitles :
             (/\ session.user_id \in Users
              /\ edit_photo(session.user_id, p, t) \/ delete_photo(session.user_id, p)
              /\ \E ph \in Photo : ph.PhotoID = p /\ ph.UserID # session.user_id)
                => UNCHANGED <<Photo, Title, files>>]_vars

\* A logged-in user asked to delete another user's photo and was refused.
C12_Witness ==
    /\ last = Resp("delete_photo", MsgPhotoUnauthorized)
    /\ session.user_id \in Users
    /\ \E ph \in Photo : ph.UserID # session.user_id /\ ph.PhotoID \in files

\* A required field is absent: the form lacks it, or (as register() counts
\* it) the title came blank.
RequiredFieldAbsent(form) ==
    \/ \E f \in FormFields : form[f] = Absent
    \/ form.title = Present(BlankTitle)

\* C13: create_contest with a required field absent fails and inserts no
\* Contest row.
C13_CreateValidates ==
    [][last'.op = "create_contest" =>
          \A form \in ContestForms :
             (create_contest(form) /\ RequiredFieldAbsent(form))
             => (Contest' = Contest /\ last'.flash = MsgContestFailed)]_vars

\* C14: whatever finalize requests are made, the prize of a contest is
\* credited at most once.
C14_PrizeAtMostOnce == \A c \in ContestIDs : prizeCredits[c] <= 1

\* C15: a status recompute, whatever the session holds, changes nothing but
\* the Status of contests that are not Cancelled: balances, photos, titles,
\* submissions, votes, files, the session and every other Contest field stay.
C15_RecomputeFrame ==
    [][Recompute =>
          /\ UNCHANGED <<Coins, Photo, Submission, Votes, nextPhotoID, files, Title,
                         session, prizeCredits, voteReq, now>>
          /\ DOMAIN Contest' = DOMAIN Contest
          /\ \A i \in DOMAIN Contest :
                /\ [Contest'[i] EXCEPT !.Status = Contest[i].Status] = Contest[i]
                /\ Contest[i].Status = "Cancelled" => Contest'[i] = Contest[i]]_vars

\* With no session, the trigger has recomputed a contest that has votes.
C15_Witness ==
    /\ last.op = "api_update_statuses"
    /\ session = NoSession
    /\ Votes # {}
    /\ \E i \in DOMAIN Contest : Contest[i].Status = "Completed"
====
